---- MODULE Spec2Model ----
(***************************************************************************)
(* WarningEventTrigger.should_fire (robusta/core/triggers/                 *)
(* error_event_trigger.py) together with the two collaborators it calls:   *)
(* RateLimiter.mark_and_test and TopServiceResolver.guess_service_key.     *)
(*                                                                         *)
(* Strings are sequences of one-character tokens, so that lower(),         *)
(* concatenation, f-string formatting and the `in` substring test are      *)
(* computed, not assumed.  Python's None is the one-token sequence None    *)
(* for a string-valued field, NoneOps / NoneList for a list-valued field.  *)
(***************************************************************************)
EXTENDS Integers, Sequences, FiniteSets, TLC

\* now          the clock mark_and_test reads, in seconds
\* limiter_map  RateLimiter's process-wide map: lookup key -> window start
\* services     the services TopServiceResolver has discovered
\* rule         the constructed trigger (immutable after __init__)
\* calls        how many should_fire calls were made
\* last         the last should_fire call: its arguments, time and outcome
\* last_pass    history: limiter lookup key -> time of the latest mark_and_test
\*              call on it that returned true
\* last_fire    history: <<rule id, reason, service key>> -> time of the latest
\*              should_fire call for it that returned true
VARIABLES now, limiter_map, services, rule, calls, last, last_pass, last_fire,
          prev, workers

vars == <<now, limiter_map, services, rule, calls, last, last_pass, last_fire,
          prev, workers>>

\* ------------------------------------------------------------------ bounds
MaxTime == 2
MaxCalls == 3
NumWorkers == 2

\* ----------------------------------------------------------------- strings
None == <<"NONE">>
NoneOps == <<"NONE">>
NoneList == <<None>>

Str_None == <<"N", "o", "n", "e">>
Str_Prefix ==
    <<"W", "a", "r", "n", "i", "n", "g", "E", "v", "e", "n", "t",
      "T", "r", "i", "g", "g", "e", "r", "_">>
Str_Sep == <<"_">>
Str_Colon == <<":">>

\* str.lower() on one character, then on a string
LowerChar(c) ==
    CASE c = "A" -> "a"
      [] c = "B" -> "b"
      [] c = "N" -> "n"
      [] OTHER -> c

Lower(s) == [i \in 1..Len(s) |-> LowerChar(s[i])]

\* f"{x}": None is formatted as the four characters N o n e
Format(x) == IF x = None THEN Str_None ELSE x

\* Python's `sub in s` on strings; the empty string is in every string
Contains(sub, s) ==
    \E i \in 1..(Len(s) - Len(sub) + 1) : SubSeq(s, i, i + Len(sub) - 1) = sub

\* Python truthiness of an Optional[str]: None and "" are falsy
TruthyStr(x) == x # None /\ x # <<>>

\* Python truthiness of an Optional[List]: None and [] / () are falsy
TruthyList(l, none) == l # none /\ Len(l) > 0

\* ------------------------------------------------------- the input universe
\* regarding.name / regarding.namespace of the objects events are about
Pod1 == <<"p", "1">>
Pod2 == <<"p", "2">>
Ns1 == <<"n", "1">>

\* playbook_id values (rule identities)
RuleIds == {<<"r">>, <<"q">>}

Operations == {"create", "update", "delete"}
EventTypes == {"Warning", "Normal"}

\* An incoming trigger event, flattened:
\*   base_match    what EventAllChangesTrigger.should_fire answers for it
\*   is_k8s        isinstance(event, K8sTriggerEvent)
\*   is_change     isinstance(exec_event, EventChangeEvent)
\*   has_obj       exec_event.obj is present
\*   has_regarding exec_event.obj.regarding is present
Event(bm, k8s, chg, ho, hr, ty, op, rs, msg, nm, nsp) ==
    [base_match |-> bm, is_k8s |-> k8s, is_change |-> chg, has_obj |-> ho,
     has_regarding |-> hr, type |-> ty, operation |-> op, reason |-> rs,
     message |-> msg, name |-> nm, namespace |-> nsp]

\* well-shaped events whose payload and regarding reference are present
PayloadEvents(types, ops, reasons, messages, names, namespaces) ==
    {Event(TRUE, TRUE, TRUE, TRUE, TRUE, ty, op, rs, msg, nm, nsp) :
        ty \in types, op \in ops, rs \in reasons, msg \in messages,
        nm \in names, nsp \in namespaces}

\* events the chain rejects before it looks at the content: each is
\* otherwise an admissible Warning about p1 in n1
MalformedEvents ==
    {Event(bm, k8s, chg, ho, hr, "Warning", "create", <<"A">>, <<"B">>, Pod1, Ns1) :
        bm \in BOOLEAN, k8s \in BOOLEAN, chg \in BOOLEAN,
        ho \in BOOLEAN, hr \in BOOLEAN}
    \ {Event(TRUE, TRUE, TRUE, TRUE, TRUE, "Warning", "create", <<"A">>, <<"B">>, Pod1, Ns1)}

Events ==
    PayloadEvents(EventTypes, Operations, {None, <<"A">>, <<"b">>},
                  {None, <<"B">>}, {None, Pod1}, {None, Ns1})
    \cup MalformedEvents

\* the events of the long-running specification: admissible Warnings that
\* differ in reason and object, one update, and three the chain rejects early
SeqEvents ==
    {Event(TRUE, TRUE, TRUE, TRUE, TRUE, "Warning", "create", <<"A">>, <<"B">>, Pod1, Ns1),
     Event(TRUE, TRUE, TRUE, TRUE, TRUE, "Warning", "create", <<"A">>, <<"B">>, Pod2, Ns1),
     Event(TRUE, TRUE, TRUE, TRUE, TRUE, "Warning", "create", <<"b">>, <<"B">>, Pod1, Ns1),
     Event(TRUE, TRUE, TRUE, TRUE, TRUE, "Warning", "update", <<"A">>, <<"B">>, Pod1, Ns1),
     Event(TRUE, TRUE, TRUE, TRUE, TRUE, "Normal", "create", <<"A">>, <<"B">>, Pod1, Ns1),
     Event(TRUE, TRUE, TRUE, TRUE, FALSE, "Warning", "create", <<"A">>, <<"B">>, Pod1, Ns1),
     Event(FALSE, TRUE, TRUE, TRUE, TRUE, "Warning", "create", <<"A">>, <<"B">>, Pod1, Ns1)}

\* A constructed trigger: the four fields __init__ stores
Rule(rl, ops, ex, inc) ==
    [rate_limit |-> rl, operations |-> ops, exclude |-> ex, include |-> inc]

Rules ==
    {Rule(rl, ops, ex, inc) :
        rl \in {0, 2},
        ops \in {NoneOps, <<>>, <<"create">>, <<"update", "delete">>},
        ex \in {NoneList, <<>>, << <<"A">> >>, << <<"c">>, <<"B">> >>},
        inc \in {NoneList, <<>>, << <<"b">> >>, << <<"c">>, <<"A", "b">> >>}}

SeqRules ==
    {Rule(rl, <<"create">>, <<>>, <<>>) : rl \in {0, 1}}

\* The three specializations, lines 81-141: each __init__ hands its own
\* parameters to WarningEventTrigger.__init__ with operations fixed
WarningEventCreateTrigger(rl, ex, inc) == Rule(rl, <<"create">>, ex, inc)

WarningEventUpdateTrigger(rl, ex, inc) == Rule(rl, <<"update">>, ex, inc)

\* (slip) the delete class copied from the update class, line 138 unchanged
WarningEventDeleteTrigger_AsUpdate(rl, ex, inc) == Rule(rl, <<"update">>, ex, inc)

WarningEventDeleteTrigger(rl, ex, inc) == Rule(rl, <<"delete">>, ex, inc)

\* The trigger the class registered for one operation constructs
Specialised(kind, rl, ex, inc) ==
    CASE kind = "create" -> WarningEventCreateTrigger(rl, ex, inc)
      [] kind = "update" -> WarningEventUpdateTrigger(rl, ex, inc)
      [] kind = "delete" -> WarningEventDeleteTrigger(rl, ex, inc)

\* the parameters the specializations are constructed with in the model
KindWindows == {0, 1}
KindExcludes == {<<>>, << <<"c">> >>}
KindIncludes == {<<>>, << <<"a">> >>}

KindRules ==
    {Specialised(kind, rl, ex, inc) :
        kind \in Operations, rl \in KindWindows,
        ex \in KindExcludes, inc \in KindIncludes}

\* the events delivered to them: one admissible Warning per operation, a
\* second reason, and a Normal event
KindEvents ==
    PayloadEvents({"Warning"}, Operations, {<<"A">>}, {<<"B">>}, {Pod1}, {Ns1})
    \cup {Event(TRUE, TRUE, TRUE, TRUE, TRUE, "Warning", "delete", <<"b">>, <<"B">>, Pod1, Ns1),
          Event(TRUE, TRUE, TRUE, TRUE, TRUE, "Normal", "delete", <<"A">>, <<"B">>, Pod1, Ns1)}

\* ------------------------------------------------ TopServiceResolver (4.3)
\* The one service the discovery pipeline can learn about, its canonical
\* key, and the objects that belong to it: p1 and p2 are two of its pods.
Svc == <<"s", "v", "c">>
Discoverable == {Svc}
MembersOf(svc) == {<<Pod1, Ns1>>, <<Pod2, Ns1>>}

\* guess_service_key(name, namespace): the key of a known service the object
\* belongs to, or None
GuessServiceKey(known, name, namespace) ==
    IF \E svc \in known : <<name, namespace>> \in MembersOf(svc)
    THEN CHOOSE svc \in known : <<name, namespace>> \in MembersOf(svc)
    ELSE None

\* ------------------------------------------------------- RateLimiter (4.2)
\* bucket and discriminator combined into the one lookup key
LimiterKey(bucket, disc) == bucket \o disc

\* (slip) the window is over at t = start + window already
WindowOpen_Short(lm, key, window, t) ==
    key \in DOMAIN lm /\ t - lm[key] < window

\* (slip) one window for the whole map: any open window denies
WindowOpen_AnyKey(lm, key, window, t) ==
    \E k \in DOMAIN lm : t - lm[k] <= window

\* The window opened at lm[key] is still open at time t
WindowOpen(lm, key, window, t) ==
    key \in DOMAIN lm /\ t - lm[key] <= window

\* (slip) every occurrence restarts the window, a denied one too
MarkAndTest_Sliding(lm, bucket, disc, window, t) ==
    LET key == LimiterKey(bucket, disc) IN
    [ret |-> ~ WindowOpen(lm, key, window, t),
     map |-> [k \in DOMAIN lm \cup {key} |-> IF k = key THEN t ELSE lm[k]]]

\* mark_and_test(bucket, disc, window) at time t on the map lm:
\* the verdict and the map it leaves
MarkAndTest(lm, bucket, disc, window, t) ==
    LET key == LimiterKey(bucket, disc) IN
    IF WindowOpen(lm, key, window, t)
    THEN [ret |-> FALSE, map |-> lm]
    ELSE [ret |-> TRUE,
          map |-> [k \in DOMAIN lm \cup {key} |-> IF k = key THEN t ELSE lm[k]]]

\* ------------------------------------------- WarningEventTrigger.should_fire
\* (slip) line 49 tests the payload only
HasRegarding_PayloadOnly(e) == e.has_obj

\* line 49: the payload and its regarding reference are present
HasRegarding(e) == e.has_obj /\ e.has_regarding

\* (slip) line 52 lets every event type through
IsWarning_AnyType(e) == e.type \in EventTypes

\* line 52
IsWarning(e) == e.type = "Warning"

\* (slip) line 55 dropped: the operation is never looked at
OperationAllowed_Always(r, e) == TRUE

\* (slip) line 55 tests `is not None` instead of truthiness: [] allows nothing
OperationAllowed_NotNone(r, e) ==
    \/ r.operations = NoneOps
    \/ e.operation \in {r.operations[i] : i \in 1..Len(r.operations)}

\* line 55: `self.operations and operation.value not in self.operations` is false
OperationAllowed(r, e) ==
    ~ (TruthyList(r.operations, NoneOps)
       /\ e.operation \notin {r.operations[i] : i \in 1..Len(r.operations)})

\* line 58
EventContent(e) == Lower(Format(e.reason) \o Format(e.message))

\* (slip) line 61 without .lower() on the exclusion
Excluded_CaseSensitive(r, content) ==
    \E i \in 1..Len(r.exclude) : Contains(r.exclude[i], content)

\* lines 60-62: some exclusion, lowercased, is in the content
Excluded(r, content) ==
    \E i \in 1..Len(r.exclude) : Contains(Lower(r.exclude[i]), content)

\* lines 65-68: include is falsy, or some inclusion, lowercased, is in the content
IncludeOk(r, content) ==
    \/ ~ TruthyList(r.include, NoneList)
    \/ \E i \in 1..Len(r.include) : Contains(Lower(r.include[i]), content)

\* lines 71-72
RegardingName(e) == IF TruthyStr(e.name) THEN e.name ELSE <<>>
RegardingNamespace(e) == IF TruthyStr(e.namespace) THEN e.namespace ELSE <<>>

\* (slip) line 75 without the reason
BucketKey_NoReason(playbook_id, e) == Str_Prefix \o Format(playbook_id)

\* line 75: f"WarningEventTrigger_{playbook_id}_{reason}"
BucketKey(playbook_id, e) ==
    Str_Prefix \o Format(playbook_id) \o Str_Sep \o Format(e.reason)

\* (slip) line 76 as name + ":" + namespace
Discriminator_NameFirst(known, e) ==
    LET name == RegardingName(e)
        namespace == RegardingNamespace(e)
        service_key == GuessServiceKey(known, name, namespace)
    IN IF TruthyStr(service_key) THEN service_key
       ELSE name \o Str_Colon \o namespace

\* (slip) line 76 without the service key: always namespace + ":" + name
Discriminator_PerObject(known, e) ==
    RegardingNamespace(e) \o Str_Colon \o RegardingName(e)

\* lines 73, 76: the resolved service key, else namespace + ":" + name
Discriminator(known, e) ==
    LET name == RegardingName(e)
        namespace == RegardingNamespace(e)
        service_key == GuessServiceKey(known, name, namespace)
    IN IF TruthyStr(service_key) THEN service_key
       ELSE namespace \o Str_Colon \o name

\* The outcome of a call that ended before the rate limiter
Ended(outcome, lm) ==
    [ret |-> outcome, map |-> lm, reached |-> FALSE,
     bucket |-> <<>>, disc |-> <<>>, window |-> 0]

\* (slip) the rate limiter is marked as soon as the event is seen to carry a
\* regarding reference, and the filters of lines 52-68 run after it
ShouldFire_MarkFirst(r, e, playbook_id, lm, known, t) ==
    IF ~ e.base_match THEN Ended("False", lm)
    ELSE IF ~ e.is_k8s THEN Ended("False", lm)
    ELSE IF ~ e.is_change THEN Ended("False", lm)
    ELSE IF ~ HasRegarding(e) THEN Ended("False", lm)
    ELSE LET bucket == BucketKey(playbook_id, e)
             disc == Discriminator(known, e)
             res == MarkAndTest(lm, bucket, disc, r.rate_limit, t)
             marked == [ret |-> IF res.ret THEN "True" ELSE "False",
                        map |-> res.map, reached |-> TRUE, bucket |-> bucket,
                        disc |-> disc, window |-> r.rate_limit]
         IN IF ~ IsWarning(e) THEN [marked EXCEPT !.ret = "False"]
            ELSE IF ~ OperationAllowed(r, e) THEN [marked EXCEPT !.ret = "False"]
            ELSE IF r.exclude = NoneList THEN [marked EXCEPT !.ret = "TypeError"]
            ELSE IF Excluded(r, EventContent(e)) THEN [marked EXCEPT !.ret = "False"]
            ELSE IF ~ IncludeOk(r, EventContent(e)) THEN [marked EXCEPT !.ret = "False"]
            ELSE marked

\* should_fire(event, playbook_id) of the trigger r, at time t, on the limiter
\* map lm and the resolver's known services: the outcome ("True", "False", or
\* "TypeError" when line 60 iterates over None), the map the call leaves, and
\* the arguments of the mark_and_test call when the chain reached it
ShouldFire(r, e, playbook_id, lm, known, t) ==
    IF ~ e.base_match THEN Ended("False", lm)
    ELSE IF ~ e.is_k8s THEN Ended("False", lm)
    ELSE IF ~ e.is_change THEN Ended("False", lm)
    ELSE IF ~ HasRegarding(e) THEN Ended("False", lm)
    ELSE IF ~ IsWarning(e) THEN Ended("False", lm)
    ELSE IF ~ OperationAllowed(r, e) THEN Ended("False", lm)
    ELSE IF r.exclude = NoneList THEN Ended("TypeError", lm)
    ELSE IF Excluded(r, EventContent(e)) THEN Ended("False", lm)
    ELSE IF ~ IncludeOk(r, EventContent(e)) THEN Ended("False", lm)
    ELSE LET bucket == BucketKey(playbook_id, e)
             disc == Discriminator(known, e)
             res == MarkAndTest(lm, bucket, disc, r.rate_limit, t)
         IN [ret |-> IF res.ret THEN "True" ELSE "False", map |-> res.map,
             reached |-> TRUE, bucket |-> bucket, disc |-> disc,
             window |-> r.rate_limit]

\* ------------------------------------------------------------ state machine
Empty == [k \in {} |-> 0]

\* every lookup key a should_fire call of the model can submit
AllKeys ==
    {LimiterKey(BucketKey(p, e), Discriminator(k, e)) :
        p \in RuleIds, e \in Events \cup SeqEvents, k \in SUBSET Discoverable}

\* The service key an event is rate limited under, as section 4.1 step 9
\* states it: the resolver's mapping for (name, namespace), each absent part
\* taken as "", else namespace:name
StatedServiceKey(known, e) ==
    LET name == IF e.name = None THEN <<>> ELSE e.name
        namespace == IF e.namespace = None THEN <<>> ELSE e.namespace
    IN IF GuessServiceKey(known, name, namespace) # None
       THEN GuessServiceKey(known, name, namespace)
       ELSE namespace \o <<":">> \o name

\* The time recorded for k in a history map, -1 when there is none
Recorded(h, k) == IF k \in DOMAIN h THEN h[k] ELSE -1

Record(h, k, t) == [x \in DOMAIN h \cup {k} |-> IF x = k THEN t ELSE h[x]]

NoCall ==
    [called |-> FALSE,
     event |-> Event(FALSE, TRUE, TRUE, TRUE, TRUE, "Warning", "create",
                     <<"A">>, <<"B">>, Pod1, Ns1),
     playbook_id |-> <<>>, at |-> 0, ret |-> "False", reached |-> FALSE,
     bucket |-> <<>>, disc |-> <<>>, window |-> 0, prior |-> -1,
     prior_fire |-> -1]

\* The dispatch loop's worker threads, and a thread that is in no call
Workers == 1..NumWorkers

Idle ==
    [pc |-> "idle", event |-> NoCall.event, playbook_id |-> <<>>,
     bucket |-> <<>>, disc |-> <<>>, window |-> 0, at |-> 0, seen |-> -1,
     ret |-> FALSE, blocked |-> FALSE]

NoWorkers == [w \in Workers |-> Idle]

TypeOK ==
    /\ now \in 0..MaxTime
    /\ \A k \in DOMAIN limiter_map : limiter_map[k] \in 0..now
    /\ services \subseteq Discoverable
    /\ rule.rate_limit \in Int
    /\ calls \in 0..MaxCalls
    /\ last.ret \in {"True", "False", "TypeError"}

\* A fresh process: nothing was rate limited yet, nothing discovered
Init ==
    /\ now = 0
    /\ limiter_map = Empty
    /\ last_pass = Empty
    /\ last_fire = Empty
    /\ services = {}
    /\ rule \in SeqRules
    /\ calls = 0
    /\ last = NoCall
    /\ prev = NoCall
    /\ workers = NoWorkers

\* should_fire(e, playbook_id) runs to its end in one step, on the shared
\* limiter map; the histories record what it did
Handle(e, playbook_id) ==
    LET out == ShouldFire(rule, e, playbook_id, limiter_map, services, now)
        key == LimiterKey(out.bucket, out.disc)
        triple == <<playbook_id, e.reason, StatedServiceKey(services, e)>>
    IN /\ calls < MaxCalls
       /\ calls' = calls + 1
       /\ limiter_map' = out.map
       /\ last' = [called |-> TRUE, event |-> e, playbook_id |-> playbook_id,
                   at |-> now, ret |-> out.ret, reached |-> out.reached,
                   bucket |-> out.bucket, disc |-> out.disc,
                   window |-> out.window,
                   prior |-> IF out.reached THEN Recorded(last_pass, key) ELSE -1,
                   prior_fire |-> Recorded(last_fire, triple)]
       /\ last_pass' = IF out.reached /\ out.ret = "True"
                       THEN Record(last_pass, key, now) ELSE last_pass
       /\ last_fire' = IF out.ret = "True"
                       THEN Record(last_fire, triple, now) ELSE last_fire
       /\ UNCHANGED <<now, services, rule>>

\* The dispatcher delivers e to the trigger registered under playbook_id
Deliver(e, playbook_id) ==
    Handle(e, playbook_id) /\ UNCHANGED <<prev, workers>>

\* A second passes
Tick ==
    /\ now < MaxTime
    /\ now' = now + 1
    /\ UNCHANGED <<limiter_map, services, rule, calls, last, last_pass, last_fire,
                   prev, workers>>

\* The discovery pipeline learns, or forgets, a service
Discover(svc) ==
    /\ services' = IF svc \in services THEN services \ {svc} ELSE services \cup {svc}
    /\ UNCHANGED <<now, limiter_map, rule, calls, last, last_pass, last_fire,
                   prev, workers>>

Next ==
    \/ \E e \in SeqEvents, p \in RuleIds : Deliver(e, p)
    \/ Tick
    \/ \E svc \in Discoverable : Discover(svc)

Spec == Init /\ [][Next]_vars

\* ---------------------------------------------- one call, every configuration
\* The limiter is process-wide, so a trigger may be constructed when other
\* triggers have used it already.  Warm is the map after every key of the
\* model passed at time 0; the histories agree with it.
Warm == [k \in AllKeys |-> 0]

WarmFire ==
    [tr \in {<<p, e.reason, StatedServiceKey(k, e)>> :
                p \in RuleIds, e \in Events \cup SeqEvents, k \in SUBSET Discoverable}
     |-> 0]

InitChain ==
    /\ \/ now = 0 /\ limiter_map = Empty /\ last_pass = Empty /\ last_fire = Empty
       \/ now \in {0, MaxTime} /\ limiter_map = Warm /\ last_pass = Warm
          /\ last_fire = WarmFire
    /\ services \in SUBSET Discoverable
    /\ rule \in Rules
    /\ calls = 0
    /\ last = NoCall
    /\ prev = NoCall
    /\ workers = NoWorkers

\* The first delivery to the trigger
DeliverFirst(e, playbook_id) == calls = 0 /\ Deliver(e, playbook_id)

NextChain == \E e \in Events, p \in RuleIds : DeliverFirst(e, p)

SpecChain == InitChain /\ [][NextChain]_vars

\* ------------------------------------------------------ the specializations
\* A Create / Update / Delete trigger in a fresh process
InitKinds ==
    /\ now = 0
    /\ limiter_map = Empty
    /\ last_pass = Empty
    /\ last_fire = Empty
    /\ services = {}
    /\ rule \in KindRules
    /\ calls = 0
    /\ last = NoCall
    /\ prev = NoCall
    /\ workers = NoWorkers

NextKinds ==
    \/ \E e \in KindEvents, p \in RuleIds : Deliver(e, p)
    \/ Tick

SpecKinds == InitKinds /\ [][NextKinds]_vars

\* ------------------------------------------- rule ids and reasons with "_"
\* playbook ids and reasons are free text: two of each, such that one id ends
\* the way one reason starts
KeyRuleIds == {<<"r">>, <<"r", "_", "q">>}

KeyEvents ==
    PayloadEvents({"Warning"}, {"create"}, {<<"A">>, <<"q", "_", "A">>},
                  {<<"B">>}, {Pod1}, {Ns1})

KeyRules == {Rule(rl, NoneOps, <<>>, <<>>) : rl \in {1, 2}}

InitKeys ==
    /\ now = 0
    /\ limiter_map = Empty
    /\ last_pass = Empty
    /\ last_fire = Empty
    /\ services \in SUBSET Discoverable
    /\ rule \in KeyRules
    /\ calls = 0
    /\ last = NoCall
    /\ prev = NoCall
    /\ workers = NoWorkers

NextKeys ==
    \/ \E e \in KeyEvents, p \in KeyRuleIds : Deliver(e, p)
    \/ Tick

SpecKeys == InitKeys /\ [][NextKeys]_vars

\* ------------------------------------ two objects of one service, in turn
\* Deliveries for the two pods of the service, one after the other, while the
\* resolver's mappings stay as they are; prev keeps the call before the last
ServiceEvents ==
    PayloadEvents({"Warning"}, {"create"}, {<<"A">>, <<"b">>}, {<<"B">>},
                  {Pod1, Pod2}, {Ns1})

ServiceRules == {Rule(rl, NoneOps, <<>>, <<>>) : rl \in {1, 2}}

InitService ==
    /\ now = 0
    /\ limiter_map = Empty
    /\ last_pass = Empty
    /\ last_fire = Empty
    /\ services \in SUBSET Discoverable
    /\ rule \in ServiceRules
    /\ calls = 0
    /\ last = NoCall
    /\ prev = NoCall
    /\ workers = NoWorkers

DeliverAfter(e, playbook_id) ==
    Handle(e, playbook_id) /\ prev' = last /\ UNCHANGED workers

NextService ==
    \/ \E e \in ServiceEvents, p \in RuleIds : DeliverAfter(e, p)
    \/ Tick

SpecService == InitService /\ [][NextService]_vars

\* --------------------------------------- concurrent delivery (section 5)
\* Worker threads run should_fire concurrently.  Lines 37-76 touch no shared
\* state; mark_and_test takes the lock of its key, reads the key's entry and
\* the clock, decides, writes, and gives the lock back when it returns.
RaceEvents ==
    {Event(TRUE, TRUE, TRUE, TRUE, TRUE, "Warning", "create", <<"A">>, <<"B">>, Pod1, Ns1),
     Event(TRUE, TRUE, TRUE, TRUE, TRUE, "Warning", "create", <<"b">>, <<"B">>, Pod1, Ns1),
     Event(TRUE, TRUE, TRUE, TRUE, TRUE, "Normal", "create", <<"A">>, <<"B">>, Pod1, Ns1)}

RaceRuleIds == {<<"r">>}

RaceRules == {Rule(1, NoneOps, <<>>, <<>>)}

Holding == {"locked", "read", "checked", "written"}

KeyOf(c) == LimiterKey(c.bucket, c.disc)

\* (slip) no locking: a caller enters whoever else is inside
LockFree_Always(ws, key) == TRUE

\* no worker is inside mark_and_test for this key
LockFree(ws, key) ==
    \A v \in Workers : ~ (ws[v].pc \in Holding /\ KeyOf(ws[v]) = key)

\* the map a caller decides on: the entry it read for its key, if any
Snapshot(c) == IF c.seen = -1 THEN Empty ELSE [k \in {KeyOf(c)} |-> c.seen]

InitRace ==
    /\ now = 0
    /\ limiter_map = Empty
    /\ last_pass = Empty
    /\ last_fire = Empty
    /\ services = {}
    /\ rule \in RaceRules
    /\ calls = 0
    /\ last = NoCall
    /\ prev = NoCall
    /\ workers = NoWorkers

\* lines 37-76: worker w gets a delivery and runs the chain up to the limiter
Begin(w, e, playbook_id) ==
    LET out == ShouldFire(rule, e, playbook_id, Empty, services, now) IN
    /\ workers[w].pc \in {"idle", "done"}
    /\ calls < MaxCalls
    /\ calls' = calls + 1
    /\ workers' = [workers EXCEPT ![w] =
          [pc |-> IF out.reached THEN "waiting" ELSE "done",
           event |-> e, playbook_id |-> playbook_id,
           bucket |-> out.bucket, disc |-> out.disc, window |-> out.window,
           at |-> 0, seen |-> -1, ret |-> FALSE, blocked |-> FALSE]]
    /\ UNCHANGED <<now, limiter_map, services, rule, last, last_pass, last_fire,
                   prev>>

\* w finds the lock of its key taken and waits
Block(w) ==
    /\ workers[w].pc = "waiting" /\ ~ workers[w].blocked
    /\ ~ LockFree(workers, KeyOf(workers[w]))
    /\ workers' = [workers EXCEPT ![w].blocked = TRUE]
    /\ UNCHANGED <<now, limiter_map, services, rule, calls, last, last_pass,
                   last_fire, prev>>

Acquire(w) ==
    /\ workers[w].pc = "waiting"
    /\ LockFree(workers, KeyOf(workers[w]))
    /\ workers' = [workers EXCEPT ![w].pc = "locked"]
    /\ UNCHANGED <<now, limiter_map, services, rule, calls, last, last_pass,
                   last_fire, prev>>

\* w reads the entry of its key, and the clock
Read(w) ==
    /\ workers[w].pc = "locked"
    /\ workers' = [workers EXCEPT ![w].pc = "read",
                                  ![w].seen = Recorded(limiter_map, KeyOf(workers[w])),
                                  ![w].at = now]
    /\ UNCHANGED <<now, limiter_map, services, rule, calls, last, last_pass,
                   last_fire, prev>>

\* w decides on what it read
Check(w) ==
    LET c == workers[w]
        res == MarkAndTest(Snapshot(c), c.bucket, c.disc, c.window, c.at)
    IN /\ c.pc = "read"
       /\ workers' = [workers EXCEPT ![w].pc = "checked", ![w].ret = res.ret]
       /\ UNCHANGED <<now, limiter_map, services, rule, calls, last, last_pass,
                      last_fire, prev>>

\* w stores the entry its decision leaves
Write(w) ==
    LET c == workers[w]
        res == MarkAndTest(Snapshot(c), c.bucket, c.disc, c.window, c.at)
    IN /\ c.pc = "checked"
       /\ limiter_map' = [k \in DOMAIN limiter_map \cup DOMAIN res.map |->
                            IF k \in DOMAIN res.map THEN res.map[k]
                            ELSE limiter_map[k]]
       /\ workers' = [workers EXCEPT ![w].pc = "written"]
       /\ UNCHANGED <<now, services, rule, calls, last, last_pass, last_fire,
                      prev>>

\* w gives the lock back and should_fire returns the verdict (line 74); the
\* verdict stays with the worker, and a true is entered in the history
Return(w) ==
    LET c == workers[w]
        key == KeyOf(c)
    IN /\ c.pc = "written"
       /\ workers' = [workers EXCEPT ![w].pc = "done"]
       /\ last_pass' = IF c.ret THEN Record(last_pass, key, c.at) ELSE last_pass
       /\ UNCHANGED <<now, limiter_map, services, rule, calls, last, last_fire,
                      prev>>

NextRace ==
    \/ \E w \in Workers, e \in RaceEvents, p \in RaceRuleIds : Begin(w, e, p)
    \/ \E w \in Workers : Block(w)
    \/ \E w \in Workers : Acquire(w)
    \/ \E w \in Workers : Read(w)
    \/ \E w \in Workers : Check(w)
    \/ \E w \in Workers : Write(w)
    \/ \E w \in Workers : Return(w)
    \/ Tick

SpecRace == InitRace /\ [][NextRace]_vars

\* ------------------------------------------------- the stated properties
\* What the statements below read off an event and a trigger, written from
\* their wording and not from the operators should_fire is built of.
Listed(l) == {l[i] : i \in 1..Len(l)}

Configured(l, none) == l # none /\ l # <<>>

WellFormed(e) ==
    e.base_match /\ e.is_k8s /\ e.is_change /\ e.has_obj /\ e.has_regarding

StatedContent(e) == Lower(Format(e.reason) \o Format(e.message))

Matches(l, e) == \E x \in Listed(l) : Contains(Lower(x), StatedContent(e))

\* a Warning that passes the structural, operation, exclude and include checks
Admissible(r, e) ==
    /\ WellFormed(e)
    /\ e.type = "Warning"
    /\ Configured(r.operations, NoneOps) => e.operation \in Listed(r.operations)
    /\ r.exclude # NoneList /\ ~ Matches(r.exclude, e)
    /\ Configured(r.include, NoneList) => Matches(r.include, e)

\* A trigger whose filters let every Warning through
Permissive(r) ==
    /\ ~ Configured(r.operations, NoneOps)
    /\ r.exclude = <<>>
    /\ ~ Configured(r.include, NoneList)

\* C1: an event whose event_type is not "Warning" is answered false, whatever
\* the other fields, the rule and the limiter state.
C1_NonWarningDenied ==
    (last.called /\ last.event.type # "Warning") => last.ret = "False"

C1_Witness ==
    /\ last.called /\ WellFormed(last.event) /\ last.event.type = "Normal"
    /\ Permissive(rule) /\ limiter_map = Empty
    /\ last.ret = "False"

\* C2: an event whose payload or whose regarding reference is absent is
\* answered false, whatever the rule and the limiter state.
C2_MissingRegardingDenied ==
    (last.called /\ ~ (last.event.has_obj /\ last.event.has_regarding))
        => last.ret = "False"

C2_Witness ==
    /\ last.called
    /\ last.event.base_match /\ last.event.is_k8s /\ last.event.is_change
    /\ last.event.has_obj /\ ~ last.event.has_regarding
    /\ last.event.type = "Warning"
    /\ Permissive(rule) /\ limiter_map = Empty
    /\ last.ret = "False"

\* C3: with operations configured and non-empty, an event whose operation is
\* not a member is answered false, even a Warning that passes exclude and
\* include and that the limiter would let pass.
C3_OperationFilterDenies ==
    (/\ last.called
     /\ Configured(rule.operations, NoneOps)
     /\ last.event.operation \notin Listed(rule.operations))
        => last.ret = "False"

C3_Witness ==
    /\ last.called /\ WellFormed(last.event) /\ last.event.type = "Warning"
    /\ rule.operations = <<"create">> /\ last.event.operation = "update"
    /\ rule.exclude = <<>> /\ rule.include = <<>>
    /\ limiter_map = Empty
    /\ last.ret = "False"

\* C4: with operations absent or empty the operation never causes a deny: the
\* call is decided as it would be for the same event under any other
\* operation, and as it would be by a trigger that lists all three
\* operations, from the same limiter state.
C4_NoOperationsAllowsAll ==
    [][(calls' = calls + 1 /\ ~ Configured(rule.operations, NoneOps)) =>
          LET e == last'.event
              p == last'.playbook_id
          IN /\ \A op \in Operations :
                   ShouldFire(rule, [e EXCEPT !.operation = op], p,
                              limiter_map, services, now).ret = last'.ret
             /\ ShouldFire([rule EXCEPT !.operations = <<"create", "update", "delete">>],
                           e, p, limiter_map, services, now).ret = last'.ret
      ]_vars

C4_Witness ==
    /\ last.called /\ rule.operations = <<>>
    /\ last.event.operation = "delete"
    /\ last.ret = "True"

\* C5: exclude takes precedence over include: when some exclude string,
\* lowercased, is in lowercase(reason + message), the answer is false even
\* when an include string matches too and the limiter would let the event pass.
C5_ExcludeWins ==
    (/\ last.called
     /\ rule.exclude # NoneList
     /\ Matches(rule.exclude, last.event))
        => last.ret = "False"

C5_Witness ==
    /\ last.called /\ WellFormed(last.event) /\ last.event.type = "Warning"
    /\ ~ Configured(rule.operations, NoneOps)
    /\ rule.exclude = << <<"A">> >> /\ rule.include = << <<"b">> >>
    /\ last.event.reason = <<"A">> /\ last.event.message = <<"B">>
    /\ limiter_map = Empty
    /\ last.ret = "False"

\* C6: with include non-empty, an event that no include string, lowercased,
\* is in lowercase(reason + message) of is answered false.
C6_IncludeRequired ==
    (/\ last.called
     /\ Configured(rule.include, NoneList)
     /\ ~ Matches(rule.include, last.event))
        => last.ret = "False"

\* C7: for one rule and an admissible Warning, a delivery is answered true
\* when the same (rule id, reason, service key) has not fired before or fired
\* more than rate_limit seconds ago, and false when it fired within the last
\* rate_limit seconds.
C7_FireOncePerWindow ==
    (last.called /\ Admissible(rule, last.event)) =>
        IF last.prior_fire = -1 \/ last.at - last.prior_fire > rule.rate_limit
        THEN last.ret = "True"
        ELSE last.ret = "False"

C7_Witness ==
    /\ last.called /\ Admissible(rule, last.event)
    /\ calls = 3
    /\ last.prior_fire >= 0
    /\ last.at = last.prior_fire + rule.rate_limit + 1
    /\ last.ret = "True"

\* C8: mark_and_test on one combined key with window W answers true on the
\* first call ever and on the first call after the window opened by the
\* latest true has expired, and false on every call inside that window; two
\* trues for a key are more than W apart.
C8_WindowSemantics ==
    last.reached =>
        IF last.prior = -1 \/ last.at - last.prior > last.window
        THEN last.ret = "True"
        ELSE last.ret = "False"

C8_Witness ==
    /\ last.reached
    /\ last.prior >= 0 /\ last.at > last.prior
    /\ last.at - last.prior <= last.window
    /\ last.ret = "False"

\* C9: limiter keys are independent: a mark_and_test call changes the entry
\* of no other key, and its verdict is the one it would get on a map that
\* holds nothing but its own key.
C9_KeysIndependent ==
    [][(calls' = calls + 1 /\ last'.reached) =>
          LET key == LimiterKey(last'.bucket, last'.disc)
              own == [k \in DOMAIN limiter_map \cap {key} |-> limiter_map[k]]
          IN /\ \A k \in (DOMAIN limiter_map \cup DOMAIN limiter_map') \ {key} :
                   /\ k \in DOMAIN limiter_map
                   /\ k \in DOMAIN limiter_map'
                   /\ limiter_map'[k] = limiter_map[k]
             /\ MarkAndTest(own, last'.bucket, last'.disc, last'.window, now).ret
                    = (last'.ret = "True")
      ]_vars

C9_Witness ==
    /\ last.reached /\ last.ret = "True"
    /\ \E e \in SeqEvents, known \in SUBSET Discoverable :
          LET other == StatedServiceKey(known, e)
              k == LimiterKey(last.bucket, other)
          IN /\ other # last.disc
             /\ k \in DOMAIN limiter_map
             /\ limiter_map[k] <= last.at
             /\ last.at - limiter_map[k] <= last.window

\* C10: the discriminator handed to the limiter is the resolver's service key
\* when it has a mapping for (name, namespace), and otherwise exactly
\* namespace + ":" + name, an absent name or namespace taken as "".
C10_ServiceKeyFallback ==
    last.reached => last.disc = StatedServiceKey(services, last.event)

C10_Witness ==
    /\ last.reached /\ services = {}
    /\ last.event.name = Pod1 /\ last.event.namespace = Ns1
    /\ last.disc = <<"n", "1", ":", "p", "1">>

\* C11: a Create / Update / Delete trigger decides every delivery, and leaves
\* the limiter, exactly as a WarningEventTrigger built with operations =
\* ["create"] / ["update"] / ["delete"] and the same other parameters does
\* from the same limiter state.
C11_SpecialisationsEquivalent ==
    [][(calls' = calls + 1) =>
          \A kind \in Operations, rl \in KindWindows,
             ex \in KindExcludes, inc \in KindIncludes :
             rule = Specialised(kind, rl, ex, inc) =>
                 LET base == Rule(rl, <<kind>>, ex, inc)
                     out == ShouldFire(base, last'.event, last'.playbook_id,
                                       limiter_map, services, now)
                 IN out.ret = last'.ret /\ out.map = limiter_map'
      ]_vars

C11_Witness ==
    /\ rule = WarningEventDeleteTrigger(1, <<>>, << <<"a">> >>)
    /\ last.called /\ last.event.operation = "delete"
    /\ last.prior_fire >= 0
    /\ last.ret = "True"

\* C13: should_fire never raises: for an event the base matcher accepts and a
\* rule the constructor accepts, the call ends in a boolean decision.
C13_NeverRaises ==
    (last.called /\ last.event.base_match) => last.ret \in {"True", "False"}

\* C14: a window <= 0 is rejected at construction, so no call reaches
\* mark_and_test with a non-positive window.
C14_WindowPositive ==
    last.reached => last.window > 0

\* C16: the chain short-circuits before the rate limiter: a delivery that the
\* structural, shape, payload, Warning, operation, exclude or include step
\* rejects leaves the limiter map as it was.
C16_FilteredLeavesLimiter ==
    [][(calls' = calls + 1 /\ ~ Admissible(rule, last'.event)) =>
          /\ limiter_map' = limiter_map
          /\ ~ last'.reached
      ]_vars

C16_Witness ==
    /\ last.called /\ WellFormed(last.event) /\ last.event.type = "Warning"
    /\ ~ Configured(rule.operations, NoneOps)
    /\ rule.exclude = <<>>
    /\ rule.include = << <<"b">> >> /\ ~ Matches(rule.include, last.event)
    /\ limiter_map = Empty
    /\ last.ret = "False"

\* C18: the lookup key is injective on (rule id, reason, service key): a
\* delivery is denied by the limiter only when the same triple fired within
\* the window, also when rule ids or reasons contain "_".
C18_KeyInjective ==
    (last.reached /\ last.ret = "False") =>
        /\ last.prior_fire >= 0
        /\ last.at - last.prior_fire <= last.window

\* C15: a denied mark_and_test call does not move the window: it leaves the
\* key's entry as it was, and a call later than t0 + W after the latest true
\* at t0 is answered true, whatever was denied in between.
C15_DeniedKeepsWindow ==
    [][(calls' = calls + 1 /\ last'.reached) =>
          /\ last'.ret = "False" => limiter_map' = limiter_map
          /\ (last'.prior >= 0 /\ now > last'.prior + last'.window)
                => last'.ret = "True"
      ]_vars

C15_Witness ==
    /\ prev.reached /\ prev.ret = "False" /\ prev.prior >= 0
    /\ last.reached /\ last.ret = "True"
    /\ last.bucket = prev.bucket /\ last.disc = prev.disc
    /\ last.prior = prev.prior
    /\ last.at > last.prior + last.window

\* C17: rate limiting is per service: after an admissible Warning fired, the
\* next admissible Warning for the same rule id and reason whose object has
\* another name but the same service key is denied when it is delivered
\* within rate_limit seconds of the first.
C17_SharedServiceWindow ==
    [][(/\ calls' = calls + 1
        /\ last.called /\ Admissible(rule, last.event) /\ last.ret = "True"
        /\ Admissible(rule, last'.event)
        /\ last'.playbook_id = last.playbook_id
        /\ last'.event.reason = last.event.reason
        /\ last'.event.name # last.event.name
        /\ StatedServiceKey(services, last'.event)
              = StatedServiceKey(services, last.event)
        /\ now - last.at <= rule.rate_limit)
          => last'.ret = "False"
      ]_vars

C17_Witness ==
    /\ prev.called /\ prev.event.name = Pod1 /\ prev.ret = "True"
    /\ last.called /\ last.event.name = Pod2 /\ last.ret = "False"
    /\ last.playbook_id = prev.playbook_id
    /\ last.event.reason = prev.event.reason
    /\ StatedServiceKey(services, last.event) = Svc
    /\ StatedServiceKey(services, prev.event) = Svc
    /\ last.at > prev.at

\* C12: concurrent mark_and_test calls on one key are linearizable: in the
\* order the calls return, each is answered true exactly when no call for its
\* key was answered true within the window before it, so of the callers
\* racing on a key one gets true per window and the others false.
C12_Linearizable ==
    [][\A w \in Workers :
          (workers[w].pc = "written" /\ workers'[w].pc = "done") =>
              LET c == workers[w]
                  prior == Recorded(last_pass, LimiterKey(c.bucket, c.disc))
              IN c.ret = (prior = -1 \/ c.at - prior > c.window)
      ]_vars

C12_Witness ==
    \E w1, w2 \in Workers :
        /\ workers[w1].pc = "done" /\ workers[w1].ret
        /\ workers[w2].pc = "done" /\ ~ workers[w2].ret
        /\ workers[w2].blocked
        /\ workers[w1].bucket # <<>>
        /\ workers[w2].bucket = workers[w1].bucket
        /\ workers[w2].disc = workers[w1].disc
        /\ workers[w2].at = workers[w1].at

====
